---- MODULE Spec2Model ----
(***************************************************************************)
(* Model of app.py (Processador de Planilhas CAEDU): the three scalar      *)
(* normalisers limpa_cpf_google_sheets, separar_telefones_multiplos and    *)
(* limpa_nome, the row loop of processar_arquivo, and the part of the      *)
(* module-level flow that loads the table and writes the result.           *)
(*                                                                         *)
(* A Python str is a sequence of one-character strings.  A cell value is   *)
(* a record [t, s]: t is "str", "int", "float" or "nan" and s holds the    *)
(* text of a str, or the decimal digits (no sign, no leading zero) of the  *)
(* whole number an int or float holds.                                     *)
(***************************************************************************)
EXTENDS Integers, Sequences, FiniteSets, TLC

VARIABLES
    entrada,            \* argument of the function under call
    op,                 \* which function was last applied to entrada
    ret,                \* str returned by limpa_cpf_google_sheets / limpa_nome
    ret_ant,            \* the previous return value, when the function is re-applied
    tels,               \* list returned by separar_telefones_multiplos
    df,                 \* the loaded DataFrame: sequence of rows of cell values
    config,             \* the config dict of processar_arquivo
    index,              \* number of rows df.iterrows() has delivered
    dados_processados,  \* list of registro dicts
    origem,             \* history: origem[i] is the row dados_processados[i] came from
    df_final,           \* [columns, rows] of pd.DataFrame(dados_processados)
    arquivo,            \* header and rows written by to_csv
    pc                  \* position in the flow

vars == <<entrada, op, ret, ret_ant, tels, df, config, index,
          dados_processados, origem, df_final, arquivo, pc>>

fnVars == <<entrada, op, ret, ret_ant, tels>>
procVars == <<df, config, index, dados_processados, origem, df_final, arquivo, pc>>

(***************************************************************************)
(* Bounds of the model and constants of the program.                       *)
(***************************************************************************)
MaxPieces == 4      \* pieces concatenated into an input string
MaxRows == 2        \* rows of the input table
MaxK == 4           \* largest max_telefones explored (the slider allows 10)
CpfLen == 11        \* "00000000000" and [-11:]
MinDigitos == 8     \* len(tel_limpo) >= 8
FloatReprMax == 16  \* repr(float) switches to exponent form at 1e16

(***************************************************************************)
(* Character classes of the regular expressions and of str methods.        *)
(***************************************************************************)
Digitos == {"0", "1", "2", "3", "4", "5", "6", "7", "8", "9"}

\* \d: of the characters the latin-1 decoding of the file yields, 0-9
IsDigit(c) == c \in Digitos

\* \s, and the whitespace of str.strip() / str.split()
IsSpace(c) == c \in {" ", "\t"}

\* re.sub(r'[^\d]', '', s)
ApenasDigitos(s) == SelectSeq(s, IsDigit)

RECURSIVE LStrip(_)
LStrip(s) == IF s # <<>> /\ IsSpace(Head(s)) THEN LStrip(Tail(s)) ELSE s

RECURSIVE RStrip(_)
RStrip(s) ==
    IF s # <<>> /\ IsSpace(s[Len(s)]) THEN RStrip(SubSeq(s, 1, Len(s) - 1)) ELSE s

\* str.strip()
Strip(s) == RStrip(LStrip(s))

Minusculas ==
    <<
       "a", "b", "c", "d", "e", "f", "g", "h", "i", "j", "k", "l", "m",
       "n", "o", "p", "q", "r", "s", "t", "u", "v", "w", "x", "y", "z",
       "ã", "á", "é", "í", "ó", "ú", "â", "ê", "ô", "ç", "õ" >>

Maiusculas ==
    <<
       "A", "B", "C", "D", "E", "F", "G", "H", "I", "J", "K", "L", "M",
       "N", "O", "P", "Q", "R", "S", "T", "U", "V", "W", "X", "Y", "Z",
       "Ã", "Á", "É", "Í", "Ó", "Ú", "Â", "Ê", "Ô", "Ç", "Õ" >>

\* the upper-case mapping of one character; 'ß'.upper() is 'SS'
UpperChar(c) ==
    IF c = "ß"
    THEN <<"S", "S">>
    ELSE IF \E i \in 1..Len(Minusculas) : Minusculas[i] = c
         THEN <<Maiusculas[CHOOSE i \in 1..Len(Minusculas) : Minusculas[i] = c]>>
         ELSE <<c>>

\* str.upper()
RECURSIVE Upper(_)
Upper(s) == IF s = <<>> THEN <<>> ELSE UpperChar(Head(s)) \o Upper(Tail(s))

\* the first token of str.split(): leading whitespace skipped, up to the next whitespace
RECURSIVE TakeToken(_)
TakeToken(s) ==
    IF s = <<>> \/ IsSpace(Head(s)) THEN <<>> ELSE <<Head(s)>> \o TakeToken(Tail(s))

PrimeiroToken(s) == TakeToken(LStrip(s))

(***************************************************************************)
(* Values and their text: pd.isna and str().                               *)
(***************************************************************************)
NaN == [t |-> "nan", s |-> <<>>]
VStr(s) == [t |-> "str", s |-> s]
VInt(d) == [t |-> "int", s |-> d]
VFloat(d) == [t |-> "float", s |-> d]

\* pd.isna(v): None and NaN
IsNa(v) == v.t = "nan"

\* v == '': only the empty str equals ''
IsEmptyStr(v) == v.t = "str" /\ v.s = <<>>

\* decimal digits of a natural number
RECURSIVE DecStr(_)
DecStr(n) ==
    LET d == <<"0", "1", "2", "3", "4", "5", "6", "7", "8", "9">>[(n % 10) + 1]
    IN  IF n < 10 THEN <<d>> ELSE DecStr(n \div 10) \o <<d>>

RECURSIVE SemZerosFinais(_)
SemZerosFinais(d) ==
    IF Len(d) > 1 /\ d[Len(d)] = "0" THEN SemZerosFinais(SubSeq(d, 1, Len(d) - 1)) ELSE d

\* repr of a float holding the whole number with decimal digits d:
\* "<d>.0" below 1e16, else the shortest mantissa with an exponent (the
\* floats of the model are those whose digits, trailing zeros apart, are
\* at most 15, which repr gives back exactly)
FloatRepr(d) ==
    IF Len(d) <= FloatReprMax
    THEN d \o <<".", "0">>
    ELSE LET m == SemZerosFinais(d)
         IN  <<m[1]>> \o (IF Len(m) > 1 THEN <<".">> \o Tail(m) ELSE <<>>)
                 \o <<"e", "+">> \o DecStr(Len(d) - 1)

\* str(v)
PyStr(v) ==
    CASE v.t = "str" -> v.s
      [] v.t = "int" -> v.s
      [] v.t = "float" -> FloatRepr(v.s)
      [] OTHER -> <<"n", "a", "n">>

(***************************************************************************)
(* limpa_cpf_google_sheets                                                 *)
(***************************************************************************)
\* "00000000000"
Zeros(n) == [i \in 1..n |-> "0"]

\* s[:n] in place of s[-n:]: keeps the left end
Primeiros(s, n) == IF Len(s) <= n THEN s ELSE SubSeq(s, 1, n)

\* the slice left out
SemCorte(s, n) == s

\* s[-n:]
Ultimos(s, n) == IF Len(s) <= n THEN s ELSE SubSeq(s, Len(s) - n + 1, Len(s))

limpa_cpf_google_sheets(cpf) ==
    IF IsNa(cpf) \/ IsEmptyStr(cpf)
    THEN <<>>
    ELSE LET cpf_str == PyStr(cpf)
             cpf_apenas_digitos == ApenasDigitos(cpf_str)
         IN  Ultimos(Zeros(CpfLen) \o cpf_apenas_digitos, CpfLen)

(***************************************************************************)
(* limpa_nome                                                              *)
(***************************************************************************)
limpa_nome(nome, apenas_primeiro_nome) ==
    IF IsNa(nome) \/ IsEmptyStr(nome)
    THEN <<>>
    ELSE LET nome_str == Upper(Strip(PyStr(nome)))
         IN  IF apenas_primeiro_nome
             THEN (IF nome_str # <<>> THEN PrimeiroToken(nome_str) ELSE <<>>)
             ELSE nome_str

(***************************************************************************)
(* separar_telefones_multiplos                                             *)
(***************************************************************************)
\* length of the whitespace run that starts at position p (greedy \s*)
RECURSIVE WsRun(_, _)
WsRun(s, p) == IF p <= Len(s) /\ IsSpace(s[p]) THEN 1 + WsRun(s, p + 1) ELSE 0

\* \d{n} at position p
DigitsAt(s, p, n) == \A i \in p..(p + n - 1) : i <= Len(s) /\ IsDigit(s[i])

\* \s*[;,/]\s* matched at p: length of the match, 0 when there is none
MatchSep(s, p) ==
    LET q == p + WsRun(s, p)
    IN  IF q <= Len(s) /\ s[q] \in {";", ",", "/"}
        THEN (q - p) + 1 + WsRun(s, q + 1)
        ELSE 0

\* \s*-\s*(?=\d) matched at p
MatchHifen(s, p) ==
    LET q == p + WsRun(s, p)
        r == q + 1 + WsRun(s, q + 1)
    IN  IF q <= Len(s) /\ s[q] = "-" /\ r <= Len(s) /\ IsDigit(s[r])
        THEN r - p
        ELSE 0

\* the lookahead \d{2}\s*\d{4,5}[-\s]?\d{4} at q
FormaTelefone(s, q) ==
    /\ DigitsAt(s, q, 2)
    /\ LET r == q + 2 + WsRun(s, q + 2)
       IN  \E n \in {4, 5} :
              /\ DigitsAt(s, r, n)
              /\ \/ DigitsAt(s, r + n, 4)
                 \/ /\ r + n <= Len(s)
                    /\ (s[r + n] = "-" \/ IsSpace(s[r + n]))
                    /\ DigitsAt(s, r + n + 1, 4)

\* \s+(?=\d{2}\s*\d{4,5}[-\s]?\d{4}) matched at p
MatchEspaco(s, p) ==
    LET w == WsRun(s, p)
    IN  IF w >= 1 /\ FormaTelefone(s, p + w) THEN w ELSE 0

\* the list separadores, by position
separadores == <<"sep", "hifen", "espaco">>

Match(separador, s, p) ==
    CASE separador = "sep" -> MatchSep(s, p)
      [] separador = "hifen" -> MatchHifen(s, p)
      [] OTHER -> MatchEspaco(s, p)

\* re.split(separador, s): the search resumes where the last match ended;
\* ini is the start of the current piece, p the position the search is at
RECURSIVE SplitFrom(_, _, _, _)
SplitFrom(separador, s, ini, p) ==
    IF p > Len(s)
    THEN <<SubSeq(s, ini, Len(s))>>
    ELSE LET m == Match(separador, s, p)
         IN  IF m > 0
             THEN <<SubSeq(s, ini, p - 1)>> \o SplitFrom(separador, s, p + m, p + m)
             ELSE SplitFrom(separador, s, ini, p + 1)

ReSplit(separador, s) == SplitFrom(separador, s, 1, 1)

\* the inner loop: novos_telefones.extend(re.split(separador, tel)) for tel in telefones
RECURSIVE DividirTodos(_, _)
DividirTodos(separador, telefones) ==
    IF telefones = <<>>
    THEN <<>>
    ELSE ReSplit(separador, Head(telefones)) \o DividirTodos(separador, Tail(telefones))

\* the outer loop over separadores[k..]
RECURSIVE Passes(_, _)
Passes(k, telefones) ==
    IF k > Len(separadores)
    THEN telefones
    ELSE Passes(k + 1, DividirTodos(separadores[k], telefones))

\* the threshold one too low
TelefoneSeteDigitos(tel_limpo) == Len(tel_limpo) >= MinDigitos - 1

\* the last test of the cleaning loop
TelefoneValido(tel_limpo) == Len(tel_limpo) >= MinDigitos

\* the cleaning loop
RECURSIVE LimparFiltrar(_)
LimparFiltrar(telefones) ==
    IF telefones = <<>>
    THEN <<>>
    ELSE LET tel_limpo == ApenasDigitos(Strip(Head(telefones)))
         IN  (IF TelefoneValido(tel_limpo) THEN <<tel_limpo>> ELSE <<>>)
                 \o LimparFiltrar(Tail(telefones))

separar_telefones_multiplos(telefone_str) ==
    IF IsNa(telefone_str) \/ IsEmptyStr(telefone_str)
    THEN <<>>
    ELSE LimparFiltrar(Passes(1, <<PyStr(telefone_str)>>))

(***************************************************************************)
(* The functions applied to single values.                                 *)
(***************************************************************************)
Pecas ==
    { <<"1", "1">>, <<"9", "8", "8", "8", "8">>, <<"7", "7", "7", "7">>,
      <<" ">>, <<"-">>, <<";">>, <<"a">> }

\* the texts made of at most n pieces
RECURSIVE Textos(_)
Textos(n) ==
    IF n = 0
    THEN {<<>>}
    ELSE LET T == Textos(n - 1) IN T \cup {t \o p : t \in T, p \in Pecas}

ExemploDois == <<"1", "1", " ", "9", "8", "8", "8", "8", "-", "7", "7", "7", "7", ";", " ", "1", "1", " ", "9", "7", "7", "7", "7", "-", "6", "6", "6", "6">>
ExemploDoisA == <<"1", "1", "9", "8", "8", "8", "8", "7", "7", "7", "7">>
ExemploDoisB == <<"1", "1", "9", "7", "7", "7", "7", "6", "6", "6", "6">>
ExemploFixo == <<"(", "1", "1", ")", " ", "3", "3", "3", "3", "-", "4", "4", "4", "4">>
ExemploBarra == <<"1", "1", "3", "3", "3", "3", "4", "4", "4", "4", "/", "1", "1", "5", "5", "5", "5", "6", "6", "6", "6", " ", ",", " ", "1", "1", "7", "7", "7", "7", "8", "8", "8", "8">>
ExemploEspacos == <<"1", "1", " ", "9", "8", "8", "8", "8", " ", "7", "7", "7", "7", " ", "1", "1", " ", "9", "7", "7", "7", "7", " ", "6", "6", "6", "6">>
ExemploNome == <<" ", " ", "j", "o", "ã", "o", " ", "d", "a", " ", "s", "i", "l", "v", "a", " ">>
ExemploCpfPontuado == <<"1", "2", "3", ".", "4", "5", "6", ".", "7", "8", "9", "-", "0", "1">>
Cpf123 == <<"1", "2", "3">>
Cpf11 == <<"1", "2", "3", "4", "5", "6", "7", "8", "9", "0", "1">>
Cpf14 == <<"1", "2", "3", "4", "5", "6", "7", "8", "9", "0", "1", "2", "3", "4">>
Cpf1e16 == <<"1", "0", "0", "0", "0", "0", "0", "0", "0", "0", "0", "0", "0", "0", "0", "0", "0">>

Amostras ==
    { ExemploDois, ExemploFixo, ExemploBarra, ExemploEspacos, ExemploNome,
      ExemploCpfPontuado, Cpf123, Cpf11, Cpf14, <<"a", "b", "c">>, <<"s", "t", "r", "a", "ß", "e">>, <<"J", "O", "Ã", "O">> }

Numeros == {Cpf123, Cpf11, Cpf14, Cpf1e16, <<"0">>}

Entradas ==
    {VStr(t) : t \in Textos(MaxPieces) \cup Amostras}
        \cup {VInt(d) : d \in Numeros} \cup {VFloat(d) : d \in Numeros} \cup {NaN}

Nenhuma == [fn |-> "nenhuma", f |-> FALSE, n |-> 0]

InitFn ==
    /\ entrada \in Entradas
    /\ op = Nenhuma
    /\ ret = <<>>
    /\ ret_ant = <<>>
    /\ tels = <<>>
    /\ df = <<>>
    /\ config = [nome_col |-> 0, cpf_col |-> 0, telefone_cols |-> <<>>,
                 apenas_primeiro_nome |-> FALSE, remover_sem_telefone |-> FALSE,
                 max_telefones |-> 1]
    /\ index = 0
    /\ dados_processados = <<>>
    /\ origem = <<>>
    /\ df_final = [columns |-> <<>>, rows |-> <<>>]
    /\ arquivo = [header |-> <<>>, rows |-> <<>>]
    /\ pc = "inativo"

ChamaLimpaCpf ==
    /\ op = Nenhuma
    /\ ret' = limpa_cpf_google_sheets(entrada)
    /\ op' = [fn |-> "cpf", f |-> FALSE, n |-> 1]
    /\ UNCHANGED <<entrada, ret_ant, tels, procVars>>

\* the returned str given back as the argument
ReaplicaLimpaCpf ==
    /\ op.fn = "cpf" /\ op.n = 1
    /\ ret_ant' = ret
    /\ ret' = limpa_cpf_google_sheets(VStr(ret))
    /\ op' = [op EXCEPT !.n = 2]
    /\ UNCHANGED <<entrada, tels, procVars>>

ChamaLimpaNome ==
    /\ op = Nenhuma
    /\ \E apenas_primeiro_nome \in BOOLEAN :
          /\ ret' = limpa_nome(entrada, apenas_primeiro_nome)
          /\ op' = [fn |-> "nome", f |-> apenas_primeiro_nome, n |-> 1]
    /\ UNCHANGED <<entrada, ret_ant, tels, procVars>>

ReaplicaLimpaNome ==
    /\ op.fn = "nome" /\ op.n = 1
    /\ ret_ant' = ret
    /\ ret' = limpa_nome(VStr(ret), op.f)
    /\ op' = [op EXCEPT !.n = 2]
    /\ UNCHANGED <<entrada, tels, procVars>>

ChamaSeparar ==
    /\ op = Nenhuma
    /\ tels' = separar_telefones_multiplos(entrada)
    /\ op' = [fn |-> "tel", f |-> FALSE, n |-> 1]
    /\ UNCHANGED <<entrada, ret, ret_ant, procVars>>

NextFn ==
    \/ ChamaLimpaCpf
    \/ ReaplicaLimpaCpf
    \/ ChamaLimpaNome
    \/ ReaplicaLimpaNome
    \/ ChamaSeparar

SpecFn == InitFn /\ [][NextFn]_vars

(***************************************************************************)
(* pd.read_csv(uploaded_file, sep=';', encoding='latin-1'): every column   *)
(* gets one dtype.  A column of integer literals is int64; integer         *)
(* literals with missing fields make it float64; any other text makes it   *)
(* object, whose fields stay the text they were.                           *)
(***************************************************************************)
\* fields read_csv takes for a missing value
ValoresNa == {<<>>, <<"N", "A">>}

EhNa(campo) == campo \in ValoresNa

EhInteiro(campo) == campo # <<>> /\ \A i \in 1..Len(campo) : campo[i] \in Digitos

RECURSIVE SemZerosIniciais(_)
SemZerosIniciais(d) ==
    IF Len(d) > 1 /\ Head(d) = "0" THEN SemZerosIniciais(Tail(d)) ELSE d

DtypeColuna(bruto, c) ==
    IF \A i \in 1..Len(bruto) : EhInteiro(bruto[i][c])
    THEN "int"
    ELSE IF \A i \in 1..Len(bruto) : EhInteiro(bruto[i][c]) \/ EhNa(bruto[i][c])
         THEN "float"
         ELSE "object"

ValorCelula(dtype, campo) ==
    IF EhNa(campo)
    THEN NaN
    ELSE CASE dtype = "int" -> VInt(SemZerosIniciais(campo))
           [] dtype = "float" -> VFloat(SemZerosIniciais(campo))
           [] OTHER -> VStr(campo)

ReadCsv(bruto) ==
    [i \in 1..Len(bruto) |->
        [c \in 1..Len(bruto[i]) |-> ValorCelula(DtypeColuna(bruto, c), bruto[i][c])]]

(***************************************************************************)
(* processar_arquivo                                                       *)
(***************************************************************************)
\* row.iloc[col] if col < len(row) else ''
Extrair(row, col) == IF col < Len(row) THEN row[col + 1] ELSE VStr(<<>>)

\* the loop over telefone_cols
RECURSIVE TelefonesDasColunas(_, _)
TelefonesDasColunas(row, telefone_cols) ==
    IF telefone_cols = <<>>
    THEN <<>>
    ELSE LET tel_col == Head(telefone_cols)
         IN  (IF tel_col < Len(row)
              THEN separar_telefones_multiplos(row[tel_col + 1])
              ELSE <<>>)
                 \o TelefonesDasColunas(row, Tail(telefone_cols))

\* l[-n:] in place of l[:n]
TruncarFim(l, n) == IF Len(l) <= n THEN l ELSE SubSeq(l, Len(l) - n + 1, Len(l))

\* telefones_processados[:max_telefones]
Truncar(l, n) == IF Len(l) <= n THEN l ELSE SubSeq(l, 1, n)

\* while len(telefones_processados) < max_telefones: append('')
RECURSIVE Preencher(_, _)
Preencher(l, n) == IF Len(l) < n THEN Preencher(Append(l, <<>>), n) ELSE l

\* all(...) in place of any(...)
ManterTodos(remover_sem_telefone, telefones_processados) ==
    \/ ~remover_sem_telefone
    \/ \A i \in 1..Len(telefones_processados) : telefones_processados[i] # <<>>

\* not remover_sem_telefone or any(tel for tel in telefones_processados if tel)
Manter(remover_sem_telefone, telefones_processados) ==
    \/ ~remover_sem_telefone
    \/ \E i \in 1..Len(telefones_processados) : telefones_processados[i] # <<>>

ChaveTelefone(i) == "DDD/Telefone " \o ToString(i)

\* the dict registro, in insertion order
Registro(nome_limpo, cpf_formatado, telefones_processados) ==
    <<[k |-> "Nome", v |-> nome_limpo], [k |-> "CPF", v |-> cpf_formatado]>>
        \o [i \in 1..Len(telefones_processados) |->
               [k |-> ChaveTelefone(i), v |-> telefones_processados[i]]]

\* registro[chave]
Valor(registro, chave) ==
    registro[CHOOSE i \in 1..Len(registro) : registro[i].k = chave].v

Chaves(registro) == [i \in 1..Len(registro) |-> registro[i].k]

\* lista.insert(0, x) in place of lista.append(x)
InsereNoInicio(lista, x) == <<x>> \o lista

\* lista.append(x)
Acrescenta(lista, x) == Append(lista, x)

\* the columns of pd.DataFrame(dados): the keys of the dicts in the order
\* they first appear; no columns at all for an empty list
RECURSIVE Colunas(_, _)
Colunas(dados, vistas) ==
    IF dados = <<>>
    THEN vistas
    ELSE LET novas == SelectSeq(Chaves(Head(dados)),
                                LAMBDA k : \A j \in 1..Len(vistas) : vistas[j] # k)
         IN  Colunas(Tail(dados), vistas \o novas)

DataFrame(dados) == [columns |-> Colunas(dados, <<>>), rows |-> dados]

\* the rows to_csv writes: the values of each record in column order
LinhasCsv(frame) ==
    [i \in 1..Len(frame.rows) |->
        [c \in 1..Len(frame.columns) |-> Valor(frame.rows[i], frame.columns[c])]]

(***************************************************************************)
(* The input tables and configurations explored.                           *)
(***************************************************************************)
LinhaSeis ==
    <<<<"j", "o", "ã", "o", " ", "d", "a", " ", "s", "i", "l", "v", "a">>,
      <<"1", "2", "3", ".", "4", "5", "6", ".", "7", "8", "9", "-", "0", "1">>,
      <<"1", "1", "3", "3", "3", "3", "4", "4", "4", "4", "/", "1", "1", "5", "5", "5", "5", "6", "6", "6", "6", " ", ",", " ", "1", "1", "7", "7", "7", "7", "8", "8", "8", "8">>,
      <<"1", "1", " ", "9", "8", "8", "8", "8", " ", "7", "7", "7", "7", " ", "1", "1", " ", "9", "7", "7", "7", "7", " ", "6", "6", "6", "6", ";", "1", "1", "2", "2", "2", "2", "3", "3", "3", "3">>>>

LinhaDois == <<<<" ", "m", "a", "r", "i", "a", " ", "s", "o", "u", "z", "a">>, <<"0", "0", "0", "1", "2", "3", "4", "5", "6", "7", "8">>, <<"1", "1", "3", "3", "3", "3", "4", "4", "4", "4", ";", "1", "1", "5", "5", "5", "5", "6", "6", "6", "6">>, <<"1", "1", " ", "9", "8", "8", "8", "8", "-", "7", "7", "7", "7">>>>

LinhaVazia == <<<<"N", "A">>, <<>>, <<>>, <<>>>>

LinhasBrutas == {LinhaSeis, LinhaDois, LinhaVazia}

\* the tables of at most n rows
RECURSIVE Tabelas(_)
Tabelas(n) ==
    IF n = 0
    THEN {<<>>}
    ELSE LET T == Tabelas(n - 1) IN T \cup {Append(t, l) : t \in T, l \in LinhasBrutas}

ColunasTelefone == {<<2, 3, 4, 5>>, <<3, 2, 2, 9>>}

Configs ==
    [nome_col : {0}, cpf_col : {1, 6}, telefone_cols : ColunasTelefone,
     apenas_primeiro_nome : BOOLEAN, remover_sem_telefone : BOOLEAN,
     max_telefones : 1..MaxK]

Init ==
    /\ \E bruto \in Tabelas(MaxRows) : df = ReadCsv(bruto)
    /\ config \in Configs
    /\ index = 0
    /\ dados_processados = <<>>
    /\ origem = <<>>
    /\ df_final = [columns |-> <<>>, rows |-> <<>>]
    /\ arquivo = [header |-> <<>>, rows |-> <<>>]
    /\ pc = "processando"
    /\ entrada = NaN
    /\ op = Nenhuma
    /\ ret = <<>>
    /\ ret_ant = <<>>
    /\ tels = <<>>

\* one iteration of for index, row in df.iterrows()
IterarLinha ==
    /\ pc = "processando"
    /\ index < Len(df)
    /\ LET row == df[index + 1]
           nome_original == Extrair(row, config.nome_col)
           cpf_original == Extrair(row, config.cpf_col)
           nome_limpo == limpa_nome(nome_original, config.apenas_primeiro_nome)
           cpf_formatado == limpa_cpf_google_sheets(cpf_original)
           telefones_processados ==
               Preencher(Truncar(TelefonesDasColunas(row, config.telefone_cols),
                                 config.max_telefones),
                         config.max_telefones)
       IN  IF Manter(config.remover_sem_telefone, telefones_processados)
           THEN /\ dados_processados' =
                       Acrescenta(dados_processados,
                                  Registro(nome_limpo, cpf_formatado, telefones_processados))
                /\ origem' = Acrescenta(origem, index + 1)
           ELSE UNCHANGED <<dados_processados, origem>>
    /\ index' = index + 1
    /\ UNCHANGED <<df, config, df_final, arquivo, pc, fnVars>>

\* df_final = pd.DataFrame(dados_processados); return df_final
CriarDataFrame ==
    /\ pc = "processando"
    /\ index = Len(df)
    /\ df_final' = DataFrame(dados_processados)
    /\ pc' = "estatisticas"
    /\ UNCHANGED <<df, config, index, dados_processados, origem, arquivo, fnVars>>

\* df_processado[df_processado['DDD/Telefone 1'] != '']
MostrarEstatisticas ==
    /\ pc = "estatisticas"
    /\ \E c \in 1..Len(df_final.columns) : df_final.columns[c] = ChaveTelefone(1)
    /\ pc' = "salvar"
    /\ UNCHANGED <<df, config, index, dados_processados, origem, df_final, arquivo, fnVars>>

\* the same subscript without that column: KeyError, caught by except Exception
ErroAoProcessar ==
    /\ pc = "estatisticas"
    /\ \A c \in 1..Len(df_final.columns) : df_final.columns[c] # ChaveTelefone(1)
    /\ pc' = "erro"
    /\ UNCHANGED <<df, config, index, dados_processados, origem, df_final, arquivo, fnVars>>

\* df_processado.to_csv(caminho_completo, sep=';', index=False, encoding='utf-8')
SalvarArquivo ==
    /\ pc = "salvar"
    /\ arquivo' = [header |-> df_final.columns, rows |-> LinhasCsv(df_final)]
    /\ pc' = "concluido"
    /\ UNCHANGED <<df, config, index, dados_processados, origem, df_final, fnVars>>

Next ==
    \/ IterarLinha
    \/ CriarDataFrame
    \/ MostrarEstatisticas
    \/ ErroAoProcessar
    \/ SalvarArquivo

Spec == Init /\ [][Next]_vars

(***************************************************************************)
(* Properties.                                                             *)
(***************************************************************************)
TodosDigitos(s) == \A i \in 1..Len(s) : s[i] \in Digitos

\* the digits d right-aligned in a field of CpfLen zeros
CampoOnze(d) ==
    IF Len(d) <= CpfLen
    THEN [i \in 1..CpfLen |-> IF i <= CpfLen - Len(d) THEN "0" ELSE d[i - (CpfLen - Len(d))]]
    ELSE [i \in 1..CpfLen |-> d[Len(d) - CpfLen + i]]

RECURSIVE Concatenar(_)
Concatenar(l) == IF l = <<>> THEN <<>> ELSE Head(l) \o Concatenar(Tail(l))

\* a is b with some elements left out
RECURSIVE EhSubsequencia(_, _)
EhSubsequencia(a, b) ==
    IF a = <<>>
    THEN TRUE
    ELSE IF b = <<>>
         THEN FALSE
         ELSE IF Head(a) = Head(b)
              THEN EhSubsequencia(Tail(a), Tail(b))
              ELSE EhSubsequencia(a, Tail(b))

\* area code, optional space, 4 or 5 digits, hyphen, 4 digits
FormaHifenada(s) ==
    \E a \in {0, 1}, n \in {4, 5} :
        /\ Len(s) = 2 + a + n + 1 + 4
        /\ DigitsAt(s, 1, 2)
        /\ (a = 1 => s[3] = " ")
        /\ DigitsAt(s, 3 + a, n)
        /\ s[3 + a + n] = "-"
        /\ DigitsAt(s, 4 + a + n, 4)

\* C1: separar_telefones_multiplos returns a single hyphenated number (area
\* code, 4-5 digits, hyphen, 4 digits) as one string of all its digits, and
\* "11 98888-7777; 11 97777-6666" as ["11988887777", "11977776666"].
C1_HifenNaoDivide ==
    (op.fn = "tel" /\ entrada.t = "str") =>
        /\ FormaHifenada(entrada.s) => tels = <<SelectSeq(entrada.s, LAMBDA c : c \in Digitos)>>
        /\ entrada.s = ExemploDois => tels = <<ExemploDoisA, ExemploDoisB>>

\* C2: for a non-empty, non-missing v, limpa_cpf_google_sheets(v) is the
\* digits of str(v) left-padded with '0' to 11, or their rightmost 11 when
\* there are more; "123" gives "00000000123", 12345678901234 gives "45678901234".
C2_DireitaOnze ==
    (op.fn = "cpf" /\ op.n = 1 /\ ~IsNa(entrada) /\ ~IsEmptyStr(entrada)) =>
        /\ ret = CampoOnze(SelectSeq(PyStr(entrada), LAMBDA c : c \in Digitos))
        /\ entrada = VStr(Cpf123) =>
               ret = <<"0", "0", "0", "0", "0", "0", "0", "0", "1", "2", "3">>
        /\ entrada = VInt(Cpf14) =>
               ret = <<"4", "5", "6", "7", "8", "9", "0", "1", "2", "3", "4">>

C2_Truncado ==
    /\ op.fn = "cpf" /\ op.n = 1
    /\ entrada = VInt(Cpf14)
    /\ ret = <<"4", "5", "6", "7", "8", "9", "0", "1", "2", "3", "4">>

\* C3: a numeric identifier cell, delivered by the loader as an int or as a
\* float holding the whole number n, is normalised to the 11-digit field of
\* n's decimal digits: str() adds no fractional or exponent digit.
C3_NumeroDecimal ==
    \A i \in 1..Len(dados_processados) :
        LET cpf_original == Extrair(df[origem[i]], config.cpf_col)
        IN  cpf_original.t \in {"int", "float"} =>
                Valor(dados_processados[i], "CPF") = CampoOnze(cpf_original.s)

\* C4: the identifier of every record is 11 ASCII digits or the empty
\* string, and empty only when the source cell was empty or missing (an
\* identifier column index out of range included).
C4_IdentificadorOnzeOuVazio ==
    \A i \in 1..Len(dados_processados) :
        LET cpf == Valor(dados_processados[i], "CPF")
            row == df[origem[i]]
        IN  /\ cpf = <<>> \/ (Len(cpf) = 11 /\ TodosDigitos(cpf))
            /\ cpf = <<>> =>
                   \/ config.cpf_col >= Len(row)
                   \/ row[config.cpf_col + 1].t = "nan"
                   \/ row[config.cpf_col + 1] = VStr(<<>>)

C4_VazioEOnze ==
    /\ pc = "concluido"
    /\ config.cpf_col < 4
    /\ \E i, j \in 1..Len(dados_processados) :
          /\ Valor(dados_processados[i], "CPF") = <<>>
          /\ Len(Valor(dados_processados[j], "CPF")) = 11

ColunasEsperadas(K) ==
    <<"Nome", "CPF">> \o [j \in 1..K |-> "DDD/Telefone " \o ToString(j)]

\* C5: every record has exactly K = max_telefones phone slots: the numbers
\* found in the configured columns, in column order, fill slots 1..K and the
\* rest are empty strings (K=4: of 6 found the first 4 are kept; 2 found
\* leave slots 3 and 4 empty).
C5_SlotsDeTelefone ==
    \A i \in 1..Len(dados_processados) :
        LET registro == dados_processados[i]
            row == df[origem[i]]
            K == config.max_telefones
            slots == [j \in 1..(Len(registro) - 2) |-> registro[j + 2].v]
        IN  /\ Chaves(registro) = ColunasEsperadas(K)
            /\ Len(slots) = K
            /\ \E achados \in {TelefonesDasColunas(row, config.telefone_cols)} :
                   \A j \in 1..K : slots[j] = IF j <= Len(achados) THEN achados[j] ELSE <<>>
            /\ (K = 4 /\ config.telefone_cols = <<2, 3, 4, 5>> /\ row[3] = VStr(LinhaSeis[3])
                    /\ row[4] = VStr(LinhaSeis[4])) =>
                   slots = <<<<"1", "1", "3", "3", "3", "3", "4", "4", "4", "4">>,
                             <<"1", "1", "5", "5", "5", "5", "6", "6", "6", "6">>,
                             <<"1", "1", "7", "7", "7", "7", "8", "8", "8", "8">>,
                             <<"1", "1", "9", "8", "8", "8", "8", "7", "7", "7", "7">>>>
            /\ (K = 4 /\ config.telefone_cols = <<2, 3, 4, 5>> /\ row[3] = VStr(LinhaDois[3])
                    /\ row[4] = VStr(LinhaDois[4])) =>
                   slots = <<<<"1", "1", "3", "3", "3", "3", "4", "4", "4", "4">>,
                             <<"1", "1", "5", "5", "5", "5", "6", "6", "6", "6">>, <<>>, <<>>>>

C5_SeisAchados ==
    /\ pc = "concluido"
    /\ config.max_telefones = 4
    /\ \E i \in 1..Len(dados_processados) :
          /\ Len(TelefonesDasColunas(df[origem[i]], config.telefone_cols)) = 6
          /\ Valor(dados_processados[i], "DDD/Telefone 4") = <<"1", "1", "9", "8", "8", "8", "8", "7", "7", "7", "7">>

SemTelefone(row) == TelefonesDasColunas(row, config.telefone_cols) = <<>>

\* C6: a row is dropped if and only if remover_sem_telefone is set and all
\* its K slots are empty; with the flag off every row yields one record (a
\* row without phones with all slots empty) and the output has as many
\* records as the input has rows.
C6_DescartaSse ==
    /\ \E sem \in {[i \in 1..index |-> SemTelefone(df[i])]} :
          /\ origem = SelectSeq([i \in 1..index |-> i],
                                LAMBDA i : ~(config.remover_sem_telefone /\ sem[i]))
          /\ \A i \in 1..Len(dados_processados) :
                (origem[i] \in 1..index /\ sem[origem[i]]) =>
                    \A j \in 1..config.max_telefones :
                        Valor(dados_processados[i], "DDD/Telefone " \o ToString(j)) = <<>>
    /\ Len(dados_processados) = Len(origem)
    /\ ~config.remover_sem_telefone => Len(dados_processados) = index
    /\ (~config.remover_sem_telefone /\ pc \notin {"processando", "inativo"}) =>
           Len(df_final.rows) = Len(df)

C6_UmaDescartada ==
    /\ pc = "concluido"
    /\ config.remover_sem_telefone
    /\ Len(df) = 2
    /\ Len(df_final.rows) = 1

\* C7: the records of the output are in the order of the rows they came
\* from: each kept row gives one record, appended at the end, and none is
\* reordered, duplicated or made for a row that does not exist.
C7_OrdemPreservada ==
    /\ Len(origem) = Len(dados_processados)
    /\ \A i \in 1..Len(origem) : origem[i] \in 1..index
    /\ \A i, j \in 1..Len(origem) : i < j => origem[i] < origem[j]
    /\ \A i \in 1..Len(origem) :
          /\ Valor(dados_processados[i], "Nome") =
                 limpa_nome(Extrair(df[origem[i]], config.nome_col),
                            config.apenas_primeiro_nome)
          /\ Valor(dados_processados[i], "CPF") =
                 limpa_cpf_google_sheets(Extrair(df[origem[i]], config.cpf_col))
    /\ pc \notin {"processando", "inativo"} => df_final.rows = dados_processados
    /\ pc = "concluido" =>
           /\ Len(arquivo.rows) = Len(dados_processados)
           /\ \A i \in 1..Len(arquivo.rows) :
                  arquivo.rows[i][1] = Valor(dados_processados[i], "Nome")

C7_DoisRegistros ==
    /\ pc = "concluido"
    /\ Len(arquivo.rows) = 2
    /\ arquivo.rows[1] # arquivo.rows[2]

\* C8: for every table and configuration, runs that drop every row and the
\* empty table included, the output table has exactly the columns Nome, CPF,
\* DDD/Telefone 1..K in that order, and that is the header written.
C8_ColunasFixas ==
    /\ pc \in {"estatisticas", "salvar", "concluido", "erro"} =>
           df_final.columns = ColunasEsperadas(config.max_telefones)
    /\ pc = "concluido" => arquivo.header = ColunasEsperadas(config.max_telefones)

\* C9: the normalisers are idempotent: limpa_cpf_google_sheets and limpa_nome
\* applied to their own result return it unchanged.
C9_Idempotente == op.n = 2 => ret = ret_ant

C9_Reaplicada ==
    /\ op.fn = "nome" /\ op.n = 2 /\ op.f
    /\ entrada = VStr(ExemploNome)
    /\ ret = <<"J", "O", "Ã", "O">>

\* C10: separar_telefones_multiplos returns only digit strings of at least 8
\* digits, in the left-to-right order of the text; shorter fragments are
\* discarded and a missing, empty or digit-free input gives the empty list.
C10_SoTelefonesValidos ==
    op.fn = "tel" =>
        LET digitos == IF IsNa(entrada)
                       THEN <<>>
                       ELSE SelectSeq(PyStr(entrada), LAMBDA c : c \in Digitos)
        IN  /\ \A i \in 1..Len(tels) : TodosDigitos(tels[i]) /\ Len(tels[i]) >= 8
            /\ EhSubsequencia(Concatenar(tels), digitos)
            /\ Len(digitos) < 8 => tels = <<>>
            /\ entrada \in {NaN, VStr(<<>>), VStr(<<"a", "b", "c">>)} => tels = <<>>

C10_DoisPorEspaco ==
    /\ op.fn = "tel"
    /\ entrada = VStr(ExemploEspacos)
    /\ tels = <<ExemploDoisA, ExemploDoisB>>

====
